---- MODULE Spec2Model ----
(***************************************************************************)
(* Model of src/app.py: the account service (login, register), the record  *)
(* service (add_flight_sale, add_batch_flight_sales, delete_flight_sale),  *)
(* account resolution by name (get_staff_id_by_name), the queries          *)
(* (get_staff_sales, get_all_staff_sales, get_staff_ranking) and the       *)
(* process-wide connection handle DBManager._conn.                         *)
(*                                                                         *)
(* Text values are sequences of one-character strings, so that             *)
(* str.replace(" ", ""), concatenation and the password policy are         *)
(* computed character by character.  Python's None is the empty sequence   *)
(* and a present value x is <<x>>.  Money amounts are integers; a          *)
(* completion rate is the fraction <<numerator, denominator>> in lowest    *)
(* terms.  User-facing messages are records whose field `text` names the   *)
(* Chinese message of the source (quoted in comments).                     *)
(*                                                                         *)
(* Environment assumption: sqlite3.connect on the local database file      *)
(* succeeds (init_db has created the tables and seeded the administrator). *)
(***************************************************************************)
EXTENDS Integers, Sequences, FiniteSets, TLC

\* ------------------------------------------------------------------ bounds
MaxStaff == 3       \* rows of sales_staff the model lets exist
MaxSales == 2       \* rows of flight_sales the model lets be inserted
MaxBatch == 1       \* length of the enumerated batches
MaxQuerySales == 3  \* rows of flight_sales inserted in the query scenarios

\* --------------------------------------------------------- program constants
ADMIN_USER == <<"a", "d", "m", "i", "n">>
ADMIN_PWD == <<"A", "d", "m", "i", "n", "1", "2", "3", "@">>
\* the administrator's real_name, "系统管理员" in the source
ADMIN_REAL_NAME == <<"S", "Y", "S">>
\* temp_password = "123456A"
TEMP_PASSWORD == <<"1", "2", "3", "4", "5", "6", "A">>
MaxLoginAttempts == 5
MinPasswordLen == 6

None == <<>>
Some(x) == <<x>>

UpperChars == {"A", "B", "C", "D", "E", "F", "G", "H", "I", "J", "K", "L", "M",
               "N", "O", "P", "Q", "R", "S", "T", "U", "V", "W", "X", "Y", "Z"}
DigitChars == {"0", "1", "2", "3", "4", "5", "6", "7", "8", "9"}

\* ------------------------------------------------------------------- state
VARIABLES
    sales_staff,      \* table sales_staff: set of rows
    flight_sales,     \* table flight_sales: set of rows
    staff_seq,        \* AUTOINCREMENT high-water mark of sales_staff.id
    sales_seq,        \* AUTOINCREMENT high-water mark of flight_sales.id
    session_state,    \* st.session_state: function from the keys present
    DBManager_conn,   \* DBManager._conn: "None" or "open"
    last,             \* the last call: [op, args, ret, raised]
    failed_logins     \* history: failed logins since the last successful login
                      \* or session reset (no variable of the program)

vars == <<sales_staff, flight_sales, staff_seq, sales_seq, session_state,
          DBManager_conn, last, failed_logins>>

\* ------------------------------------------------------------ pure helpers
\* werkzeug generate_password_hash / check_password_hash: a one-way digest
\* that verifies exactly the plaintext it was made from
generate_password_hash(password) ==
    [method |-> "pbkdf2:sha256", digest_of |-> password]

check_password_hash(pwhash, password) ==
    pwhash = generate_password_hash(password)

HasChar(s, class) == \E i \in 1..Len(s) : s[i] \in class

is_strong_password_no_digit_rule(password) ==
    IF Len(password) < MinPasswordLen
    THEN [ok |-> FALSE, text |-> "password_too_short"]
    ELSE IF ~HasChar(password, UpperChars)
    THEN [ok |-> FALSE, text |-> "password_needs_uppercase"]
    ELSE [ok |-> TRUE, text |-> "password_ok"]

\* "密码长度不能少于6位" / "密码需包含至少一个大写字母" / "密码需包含至少一个数字"
is_strong_password(password) ==
    IF Len(password) < MinPasswordLen
    THEN [ok |-> FALSE, text |-> "password_too_short"]
    ELSE IF ~HasChar(password, UpperChars)
    THEN [ok |-> FALSE, text |-> "password_needs_uppercase"]
    ELSE IF ~HasChar(password, DigitChars)
    THEN [ok |-> FALSE, text |-> "password_needs_digit"]
    ELSE [ok |-> TRUE, text |-> "password_ok"]

\* staff_name.replace(" ", "")
NotSpace(c) == c # " "
RemoveSpaces(s) == SelectSeq(s, NotSpace)

\* DBManager.get_conn: connects when the handle is None; when the handle is
\* set, line 41 reads cls._conn.closed, an attribute sqlite3.Connection does
\* not have: the AttributeError is caught and None is returned
get_conn(handle) ==
    IF handle = "None"
    THEN [conn |-> Some("conn"), handle |-> "open"]
    ELSE [conn |-> None, handle |-> handle]

\* the finally clause of every function: conn.close(); DBManager._conn = None
finally_reset_leaves_open(handle) == handle

finally_reset(handle) == "None"

\* UNIQUE(username), line 67
UsernameTaken_never(staff, username) == FALSE

UsernameTaken(staff, username) == \E a \in staff : a.username = username

StaffRow(id, username, password, real_name, is_admin) ==
    [id |-> id, username |-> username,
     password_hash |-> generate_password_hash(password),
     real_name |-> real_name, is_admin |-> is_admin]

\* ---------------------------------------------------------------- init_db
Init ==
    /\ sales_staff = {StaffRow(1, ADMIN_USER, ADMIN_PWD, ADMIN_REAL_NAME, 1)}
    /\ flight_sales = {}
    /\ staff_seq = 1
    /\ sales_seq = 0
    /\ session_state = [user |-> None]
    /\ DBManager_conn = "None"
    /\ last = [op |-> "init_db", args |-> <<>>, ret |-> <<>>, raised |-> ""]
    /\ failed_logins = 0


\* ------------------------------------------------------------ the functions
\* Each function of the source is an operator from the state it reads and its
\* arguments to a result record: the value returned (ret), the exception that
\* escapes ("" when none does) and the state it leaves.

\* register(username, password, real_name), lines 213-240.  The INSERT names no
\* is_admin, so the column takes its DEFAULT 0.
\* "用户名和真实姓名不能为空" / "数据库连接失败，请稍后重试" / "用户名已存在" /
\* "注册成功，请登录"
register(staff, seq, handle, username, password, real_name) ==
    LET strong == is_strong_password(password)
        gc == get_conn(handle)
        same == [staff |-> staff, seq |-> seq, raised |-> ""]
    IN  IF username = <<>> \/ real_name = <<>>
        THEN same @@ [ret |-> <<FALSE, [text |-> "username_and_real_name_required"]>>,
                      handle |-> handle]
        ELSE IF ~strong.ok
        THEN same @@ [ret |-> <<FALSE, [text |-> strong.text]>>, handle |-> handle]
        ELSE IF gc.conn = None
        THEN same @@ [ret |-> <<FALSE, [text |-> "db_connect_failed"]>>,
                      handle |-> gc.handle]
        ELSE IF UsernameTaken(staff, username)
        THEN \* sqlite3.IntegrityError on UNIQUE(username)
             same @@ [ret |-> <<FALSE, [text |-> "username_exists"]>>,
                      handle |-> finally_reset(gc.handle)]
        ELSE [staff |-> staff \cup {StaffRow(seq + 1, username, password, real_name, 0)},
              seq |-> seq + 1, raised |-> "",
              ret |-> <<TRUE, [text |-> "register_ok"]>>, handle |-> finally_reset(gc.handle)]

\* login(username, password), lines 178-210.
\* "登录失败次数过多，请1分钟后再试" / "登录成功" /
\* "账号或密码错误（剩余尝试次数：n）"
Attempts(ss) ==
    IF "login_attempts" \in DOMAIN ss THEN ss.login_attempts ELSE 0

SetAttempts(ss, n) ==
    [k \in DOMAIN ss \cup {"login_attempts"} |->
        IF k = "login_attempts" THEN n ELSE ss[k]]

\* line 181: the attempt is refused once the counter has reached the limit
RateLimited_off_by_one(attempts) == attempts > MaxLoginAttempts

RateLimited(attempts) == attempts >= MaxLoginAttempts

\* line 195: the counter after a successful login
AttemptsAfterSuccess(attempts) == 0

\* lines 203-204: the failure branch, taken when no row matched the username
\* and when the hash check failed alike
LoginFailure_reveals(rows, attempts) ==
    [attempts |-> attempts + 1,
     ret |-> <<None, [text |-> IF rows = {} THEN "no_such_user" ELSE "bad_credentials",
                      remaining |-> MaxLoginAttempts - (attempts + 1)]>>]

LoginFailure(rows, attempts) ==
    [attempts |-> attempts + 1,
     ret |-> <<None, [text |-> "bad_credentials",
                      remaining |-> MaxLoginAttempts - (attempts + 1)]>>]

login(staff, ss, handle, username, password) ==
    LET ss0 == SetAttempts(ss, Attempts(ss))
        gc == get_conn(handle)
        \* fetchone() of the SELECT by username; username is UNIQUE
        rows == {a \in staff : a.username = username}
        failure == LoginFailure(rows, ss0.login_attempts)
    IN  IF RateLimited(ss0.login_attempts)
        THEN [ret |-> <<None, [text |-> "too_many_attempts"]>>, ss |-> ss0,
              handle |-> handle, raised |-> ""]
        ELSE IF gc.conn = None
        THEN [ret |-> <<None, [text |-> "db_connect_failed"]>>, ss |-> ss0,
              handle |-> gc.handle, raised |-> ""]
        ELSE IF \E a \in rows : check_password_hash(a.password_hash, password)
        THEN LET user == CHOOSE a \in rows : TRUE
             IN  [ret |-> <<Some([id |-> user.id, username |-> user.username,
                                  real_name |-> user.real_name,
                                  is_admin |-> user.is_admin]),
                            [text |-> "login_ok"]>>,
                  ss |-> SetAttempts(ss0, AttemptsAfterSuccess(ss0.login_attempts)),
                  handle |-> finally_reset(gc.handle), raised |-> ""]
        ELSE [ret |-> failure.ret, ss |-> SetAttempts(ss0, failure.attempts),
              handle |-> finally_reset(gc.handle), raised |-> ""]

\* get_staff_id_by_name(staff_name), lines 128-174.
\* "姓名不能为空" / "数据库连接失败" / "查询成功" / "自动创建账号：u / 123456A"
\* The SELECT by real_name has no ORDER BY; SQLite scans the table in rowid
\* order, so fetchone() is the matching row of least id.
\* A UNIQUE violation of the first INSERT is handled by a second INSERT with
\* the suffix "_1"; that one runs inside the except clause, so its own UNIQUE
\* violation escapes the function (finally still resets the handle).
MinId(rows) == CHOOSE i \in {a.id : a \in rows} : \A a \in rows : i <= a.id

get_staff_id_by_name(staff, seq, handle, staff_name) ==
    LET gc == get_conn(handle)
        found == {a \in staff : a.real_name = staff_name /\ a.is_admin = 0}
        temp_username == RemoveSpaces(staff_name)
        suffixed == temp_username \o <<"_", "1">>
        same == [staff |-> staff, seq |-> seq]
        created(u) ==
            [staff |-> staff \cup {StaffRow(seq + 1, u, TEMP_PASSWORD, staff_name, 0)},
             seq |-> seq + 1, raised |-> "", handle |-> finally_reset(gc.handle), closed |-> TRUE,
             ret |-> <<Some(seq + 1), [text |-> "account_created", username |-> u,
                                       password |-> TEMP_PASSWORD]>>]
    IN  IF staff_name = <<>>
        THEN same @@ [ret |-> <<None, [text |-> "name_required"]>>, raised |-> "",
                      handle |-> handle, closed |-> FALSE]
        ELSE IF gc.conn = None
        THEN same @@ [ret |-> <<None, [text |-> "db_connect_failed"]>>, raised |-> "",
                      handle |-> gc.handle, closed |-> FALSE]
        ELSE IF found # {}
        THEN same @@ [ret |-> <<Some(MinId(found)), [text |-> "found"]>>, raised |-> "",
                      handle |-> finally_reset(gc.handle), closed |-> TRUE]
        ELSE IF ~UsernameTaken(staff, temp_username)
        THEN created(temp_username)
        ELSE IF ~UsernameTaken(staff, suffixed)
        THEN created(suffixed)
        ELSE same @@ [ret |-> <<>>, raised |-> "IntegrityError",
                      handle |-> finally_reset(gc.handle), closed |-> TRUE]


\* ------------------------------------------------------------ record service
RECURSIVE GCD(_, _)
GCD(a, b) == IF b = 0 THEN a ELSE GCD(b, a % b)

\* the quotient a / b (b > 0) as a fraction in lowest terms
Quotient(a, b) == <<a \div GCD(a, b), b \div GCD(a, b)>>

completion_rate_of_inverted(sale_amount, sale_target) ==
    IF sale_amount > 0 THEN Quotient(sale_target, sale_amount) ELSE <<0, 1>>

\* lines 271 and 300: sale_amount / sale_target if sale_target > 0 else 0
completion_rate_of(sale_amount, sale_target) ==
    IF sale_target > 0 THEN Quotient(sale_amount, sale_target) ELSE <<0, 1>>

\* str(sale_date) of a datetime.date <<year, month, day>>: "YYYY-MM-DD"
Digits == <<"0", "1", "2", "3", "4", "5", "6", "7", "8", "9">>
Digit(n) == Digits[(n % 10) + 1]
StrDate(d) ==
    <<Digit(d[1] \div 1000), Digit(d[1] \div 100), Digit(d[1] \div 10), Digit(d[1]),
      "-", Digit(d[2] \div 10), Digit(d[2]), "-", Digit(d[3] \div 10), Digit(d[3])>>

SaleRow(id, staff_id, staff_name, flight_no, sale_date, sale_amount, sale_target) ==
    [id |-> id, staff_id |-> staff_id, staff_name |-> staff_name,
     flight_no |-> flight_no, sale_date |-> StrDate(sale_date),
     sale_amount |-> sale_amount, sale_target |-> sale_target,
     completion_rate |-> completion_rate_of(sale_amount, sale_target)]

\* line 295: sale_amount <= 0 or sale_target <= 0
NotPositive_allows_zero(sale_amount, sale_target) == sale_amount < 0 \/ sale_target < 0

NotPositive(sale_amount, sale_target) == sale_amount <= 0 \/ sale_target <= 0

\* line 327: WHERE id = ? AND staff_id = ?
DeleteMatches_any_owner(r, sale_id, staff_id) == r.id = sale_id

DeleteMatches(r, sale_id, staff_id) == r.id = sale_id /\ r.staff_id = staff_id

\* lines 48 and 84: PRAGMA foreign_keys = ON and
\* FOREIGN KEY (staff_id) REFERENCES sales_staff(id)
ForeignKeyHolds_pragma_off(staff, staff_id) == TRUE

ForeignKeyHolds(staff, staff_id) == \E a \in staff : a.id = staff_id

\* add_flight_sale, lines 294-318.  PRAGMA foreign_keys = ON (line 48): an
\* INSERT whose staff_id is no sales_staff.id raises IntegrityError, caught by
\* `except Exception` (rollback, "系统异常，请稍后重试").
\* "销售额和销售指标必须大于0" / "航班号不能为空" / "航班销售数据提交成功"
add_flight_sale(staff, sales, seq, handle, staff_id, staff_name, flight_no, sale_date, sale_amount, sale_target) ==
    LET gc == get_conn(handle)
        same == [sales |-> sales, seq |-> seq, raised |-> ""]
    IN  IF NotPositive(sale_amount, sale_target)
        THEN same @@ [ret |-> <<FALSE, [text |-> "amount_and_target_must_be_positive"]>>,
                      handle |-> handle]
        ELSE IF flight_no = <<>>
        THEN same @@ [ret |-> <<FALSE, [text |-> "flight_no_required"]>>,
                      handle |-> handle]
        ELSE IF gc.conn = None
        THEN same @@ [ret |-> <<FALSE, [text |-> "db_connect_failed"]>>,
                      handle |-> gc.handle]
        ELSE IF ~ForeignKeyHolds(staff, staff_id)
        THEN same @@ [ret |-> <<FALSE, [text |-> "system_error"]>>, handle |-> finally_reset(gc.handle)]
        ELSE [sales |-> sales \cup {SaleRow(seq + 1, staff_id, staff_name, flight_no,
                                            sale_date, sale_amount, sale_target)},
              seq |-> seq + 1, raised |-> "",
              ret |-> <<TRUE, [text |-> "sale_submitted"]>>, handle |-> finally_reset(gc.handle)]

\* delete_flight_sale, lines 321-336: DELETE ... WHERE id = ? AND staff_id = ?
\* "删除成功"
delete_flight_sale(sales, handle, sale_id, staff_id) ==
    LET gc == get_conn(handle)
    IN  IF gc.conn = None
        THEN [sales |-> sales, ret |-> <<FALSE, [text |-> "db_connect_failed"]>>,
              handle |-> gc.handle, raised |-> ""]
        ELSE [sales |-> {r \in sales : ~DeleteMatches(r, sale_id, staff_id)},
              ret |-> <<TRUE, [text |-> "delete_ok"]>>,
              handle |-> finally_reset(gc.handle), raised |-> ""]


\* add_batch_flight_sales, lines 243-291.  The loop state b holds the tables as
\* the batch's connection sees them (staff, sales and the two sequences), the
\* tables as last committed, the shared handle, whether the connection object
\* the batch holds has been closed, the two accumulators and the exception
\* raised inside the try block ("" when none).
\* line 261: rows that are skipped without a word ("跳过空数据")
SkippedRow(data) ==
    \/ data.staff_name = <<>>
    \/ data.flight_no = <<>>
    \/ data.sale_amount <= 0
    \/ data.sale_target <= 0

\* lines 265-278 for one row that is not skipped.  get_staff_id_by_name is
\* called while the batch holds the handle; when it does obtain the shared
\* connection its commit makes the pending rows durable and its finally clause
\* closes the connection the batch still uses (any later statement on it
\* raises sqlite3.ProgrammingError).
\* (Results that are used several times are bound with x \in {e}, so that e is
\* evaluated once.)
BatchRowAfter(b, data, r) ==
    LET b1 == [b EXCEPT !.staff = r.staff, !.staff_seq = r.seq, !.handle = r.handle,
                        !.conn_closed = b.conn_closed \/ r.closed,
                        !.committed = IF r.closed /\ r.raised = ""
                                      THEN [sales |-> b.sales, sales_seq |-> b.sales_seq]
                                      ELSE b.committed]
    IN  IF r.raised # ""
        THEN [b1 EXCEPT !.raised = r.raised]
        ELSE IF r.ret[1] = None
        THEN [b1 EXCEPT !.fail_messages =
                  Append(b.fail_messages, [staff_name |-> data.staff_name, msg |-> r.ret[2]])]
        ELSE IF b1.conn_closed
        THEN [b1 EXCEPT !.raised = "ProgrammingError"]
        ELSE [b1 EXCEPT !.sales = b.sales \cup
                            {SaleRow(b.sales_seq + 1, r.ret[1][1], data.staff_name,
                                     data.flight_no, data.sale_date, data.sale_amount,
                                     data.sale_target)},
                        !.sales_seq = b.sales_seq + 1,
                        !.success_count = b.success_count + 1]

BatchRow(b, data) ==
    CHOOSE out \in {BatchRowAfter(b, data, r) :
                        r \in {get_staff_id_by_name(b.staff, b.staff_seq, b.handle,
                                                     data.staff_name)}} : TRUE

RECURSIVE BatchLoop(_, _, _)
BatchLoop(sales_data_list, i, b) ==
    IF i > Len(sales_data_list) \/ b.raised # ""
    THEN b
    ELSE IF SkippedRow(sales_data_list[i])
    THEN BatchLoop(sales_data_list, i + 1, b)
    ELSE \* the state after row i is computed once, then the loop goes on from it
         CHOOSE out \in {BatchLoop(sales_data_list, i + 1, b1) :
                             b1 \in {BatchRow(b, sales_data_list[i])}} : TRUE

\* lines 280-291: commit and the return value, or the exception handler
\* "成功录入n条数据！[失败：...]" / "无有效数据录入！失败：..." /
\* "无有效数据录入！请填写姓名、航班号，且销售额/指标大于0" / "系统异常：..."
BatchReturn(b) ==
    IF b.conn_closed
    THEN \* the statement, the commit (line 280) and the rollback (line 287) all
         \* raise on a closed connection: the exception escapes the handler
         [staff |-> b.staff, staff_seq |-> b.staff_seq, sales |-> b.committed.sales,
          sales_seq |-> b.committed.sales_seq, handle |-> finally_reset(b.handle),
          raised |-> "ProgrammingError", ret |-> <<>>]
    ELSE IF b.raised # ""
    THEN [staff |-> b.staff, staff_seq |-> b.staff_seq, sales |-> b.committed.sales,
          sales_seq |-> b.committed.sales_seq, handle |-> finally_reset(b.handle), raised |-> "",
          ret |-> <<FALSE, [text |-> "system_error"]>>]
    ELSE [staff |-> b.staff, staff_seq |-> b.staff_seq, sales |-> b.sales,
          sales_seq |-> b.sales_seq, handle |-> finally_reset(b.handle), raised |-> "",
          ret |-> IF b.success_count > 0
                  THEN <<TRUE, [text |-> "batch_ok",
                                success_count |-> b.success_count,
                                fail_messages |-> b.fail_messages]>>
                  ELSE <<FALSE, [text |-> "batch_no_valid_data",
                                 fail_messages |-> b.fail_messages]>>]

add_batch_flight_sales(staff, staff_seq_, sales, sales_seq_, handle, sales_data_list) ==
    LET gc == get_conn(handle)
        b0 == [staff |-> staff, staff_seq |-> staff_seq_, sales |-> sales,
               sales_seq |-> sales_seq_,
               committed |-> [sales |-> sales, sales_seq |-> sales_seq_],
               handle |-> gc.handle, conn_closed |-> FALSE,
               success_count |-> 0, fail_messages |-> <<>>, raised |-> ""]
    IN  IF gc.conn = None
        THEN [staff |-> staff, staff_seq |-> staff_seq_, sales |-> sales,
              sales_seq |-> sales_seq_, handle |-> gc.handle, raised |-> "",
              ret |-> <<FALSE, [text |-> "db_connect_failed"]>>]
        ELSE CHOOSE out \in {BatchReturn(b) :
                                 b \in {BatchLoop(sales_data_list, 1, b0)}} : TRUE

\* ------------------------------------------------------------------ queries
\* SQLite compares TEXT values with the BINARY collation (memcmp, then length).
\* The stored dates hold digits and "-" only.
CodePoints ==
    [c \in {"-"} \cup {Digits[n] : n \in 1..10} |->
        IF c = "-" THEN 45 ELSE 47 + (CHOOSE n \in 1..10 : Digits[n] = c)]
CodePoint(c) == CodePoints[c]

\* -1, 0 or 1 as a sorts before, equal to or after b: decided by the first
\* position where the two differ, or by length when one is a prefix of the other
TextCompare(a, b) ==
    IF a = b THEN 0
    ELSE LET n == IF Len(a) < Len(b) THEN Len(a) ELSE Len(b)
         IN  IF \A i \in 1..n : a[i] = b[i]
             THEN IF Len(a) < Len(b) THEN -1 ELSE 1
             ELSE LET k == CHOOSE i \in 1..n :
                               a[i] # b[i] /\ \A j \in 1..(i - 1) : a[j] = b[j]
                  IN  IF CodePoint(a[k]) < CodePoint(b[k]) THEN -1 ELSE 1

\* lines 347-352 and 377-382: a bound is applied when it is given (a date is
\* truthy, None is not); both bounds are compared as str(date)
StartBound_exclusive(r, start_date) ==
    start_date = None \/ TextCompare(r.sale_date, StrDate(start_date[1])) > 0

StartBound(r, start_date) ==
    start_date = None \/ TextCompare(r.sale_date, StrDate(start_date[1])) >= 0

EndBound(r, end_date) ==
    end_date = None \/ TextCompare(r.sale_date, StrDate(end_date[1])) <= 0

\* the sequences that hold every row of the set once, in an order that never
\* puts a row of greater rank before one of smaller rank; the ranks are given
\* as a function on the rows (bound with o \in {order} where Sorted is used, so
\* that the function is computed once)
RECURSIVE Sorted(_, _)
Sorted(rows, rank) ==
    IF rows = {} THEN {<<>>}
    ELSE UNION {{<<r>> \o rest : rest \in Sorted(rows \ {r}, rank)} :
                    r \in {x \in rows : \A y \in rows : rank[x] <= rank[y]}}

\* line 353: ORDER BY sale_date DESC, id DESC
ByDateDescIdDesc(r1, r2) ==
    \/ TextCompare(r1.sale_date, r2.sale_date) > 0
    \/ r1.sale_date = r2.sale_date /\ r1.id > r2.id

\* line 383: ORDER BY sale_date DESC; the statement leaves the order of rows
\* of one date to the engine
ByDateDesc(r1, r2) == TextCompare(r1.sale_date, r2.sale_date) > 0

\* get_staff_sales, lines 339-366.  A DataFrame is the sequence of its rows;
\* the three *_formatted display columns (lines 357-359) are left out.
get_staff_sales(sales, handle, staff_id, start_date, end_date) ==
    LET gc == get_conn(handle)
        selected == {r \in sales : /\ r.staff_id = staff_id
                                   /\ StartBound(r, start_date)
                                   /\ EndBound(r, end_date)}
        \* the number of rows that come before r
        order == [r \in selected |->
                     Cardinality({x \in selected : ByDateDescIdDesc(x, r)})]
    IN  IF gc.conn = None
        THEN [ret |-> <<>>, handle |-> gc.handle, raised |-> ""]
        ELSE [ret |-> CHOOSE df \in UNION {Sorted(selected, o) : o \in {order}} : TRUE,
              handle |-> finally_reset(gc.handle), raised |-> ""]

\* get_all_staff_sales, lines 369-392: the set of results the statement allows
get_all_staff_sales(sales, handle, start_date, end_date) ==
    LET gc == get_conn(handle)
        selected == {r \in sales : StartBound(r, start_date) /\ EndBound(r, end_date)}
        order == [r \in selected |-> Cardinality({x \in selected : ByDateDesc(x, r)})]
    IN  IF gc.conn = None
        THEN {[ret |-> <<>>, handle |-> gc.handle, raised |-> ""]}
        ELSE {[ret |-> df, handle |-> finally_reset(gc.handle), raised |-> ""] :
                  df \in UNION {Sorted(selected, o) : o \in {order}}}

\* lines 402-405: groupby("staff_name").agg(sum)
RECURSIVE SumSeq(_)
SumSeq(xs) == IF xs = <<>> THEN 0 ELSE Head(xs) + SumSeq(Tail(xs))

GroupKey(r) == r.staff_name

ColumnSum_all_groups(df, key, column) ==
    SumSeq([i \in DOMAIN df |-> df[i][column]])

ColumnSum(df, key, column) ==
    SumSeq([i \in DOMAIN df |-> IF GroupKey(df[i]) = key THEN df[i][column] ELSE 0])

\* line 406: float division of the two sums; x / 0 is inf (<<1, 0>>) and
\* 0 / 0 is nan (<<0, 0>>)
FloatDiv(a, b) ==
    IF b > 0 THEN Quotient(a, b) ELSE IF a > 0 THEN <<1, 0>> ELSE <<0, 0>>

RateGreater(x, y) == x[1] * y[2] > y[1] * x[2]

\* line 408: rank(ascending=False, method="min")
RankMin_dense(rates, rate) ==
    1 + Cardinality({x \in {rates[k] : k \in DOMAIN rates} : RateGreater(x, rate)})

RankMin(rates, rate) ==
    1 + Cardinality({k \in DOMAIN rates : RateGreater(rates[k], rate)})

ByRank(g1, g2) == g1.rank < g2.rank

\* lines 397-415 applied to the rows of the frame get_all_staff_sales returned
\* (the sums do not depend on the order of the rows): the set of results
\* sort_values("rank") allows (its default quicksort is not stable); the
\* *_formatted columns are left out
RankingOf(rows) ==
    LET df == CHOOSE f \in UNION {Sorted(rows, o) : o \in {[r \in rows |-> r.id]}} : TRUE
        keys == {GroupKey(r) : r \in rows}
        sums == [k \in keys |->
                    [sale_amount |-> ColumnSum(df, k, "sale_amount"),
                     sale_target |-> ColumnSum(df, k, "sale_target")]]
        rates == [k \in keys |-> FloatDiv(sums[k].sale_amount, sums[k].sale_target)]
        ranking_df == {[staff_name |-> k, sale_amount |-> sums[k].sale_amount,
                        sale_target |-> sums[k].sale_target,
                        completion_rate |-> rates[k],
                        rank |-> RankMin(rates, rates[k])] : k \in keys}
        order == [g \in ranking_df |-> Cardinality({x \in ranking_df : ByRank(x, g)})]
    IN  IF rows = {} THEN {<<>>} ELSE UNION {Sorted(ranking_df, o) : o \in {order}}

Rows(df) == {df[i] : i \in DOMAIN df}

get_staff_ranking(sales, handle, start_date, end_date) ==
    LET frames == get_all_staff_sales(sales, handle, start_date, end_date)
    IN  UNION {{[ret |-> ranking, handle |-> h, raised |-> ""] :
                    ranking \in UNION {RankingOf(rows) :
                                           rows \in {Rows(f.ret) : f \in frames}}} :
               h \in {f.handle : f \in frames}}

\* ------------------------------------------------------------------ inputs
A == <<"A">>
UsernameInputs == {<<>>, ADMIN_USER, A}
RealNameInputs == {<<>>, A}
Abcdef1 == <<"A", "b", "c", "d", "e", "f", "1">>
RegisterPasswordInputs ==
    { <<"a", "b", "c", "1", "2">>,                   \* "abc12"
      <<"A", "b", "c", "1", "2">>,                   \* "Abc12"
      <<"a", "b", "c", "d", "e", "f", "1">>,         \* "abcdef1"
      <<"A", "b", "c", "d", "e", "f">>,              \* "Abcdef"
      <<"A", "b", "c", "d", "e", "1">>,              \* "Abcde1"
      Abcdef1 }
LoginPasswordInputs == {Abcdef1, ADMIN_PWD}
StaffNameInputs == {<<>>, A, <<"A", " ">>, <<"A", "_", "1">>}
F1 == <<"F", "1">>
DateInputs == {<<2024, 1, 1>>}
\* <<flight_no, sale_amount, sale_target>>: two valid sales, and one invalid
\* sale for each of the three validation rules
SaleInputs == {<<F1, 1, 2>>, <<F1, 2, 2>>, <<F1, 0, 2>>, <<F1, 1, 0>>, <<<<>>, 1, 2>>}
StaffIdInputs == 1..MaxStaff
SaleIdInputs == 1..MaxSales

BatchRowInputs ==
    { [staff_name |-> A, flight_no |-> F1, sale_date |-> <<2024, 1, 1>>,
       sale_amount |-> 1, sale_target |-> 2],
      [staff_name |-> <<"A", " ">>, flight_no |-> F1,
       sale_date |-> <<2024, 1, 1>>, sale_amount |-> 0, sale_target |-> 2] }

\* the five-row form (SALES_STAFF_ITEMS) with row 3 left at sale_amount = 0
FiveRows ==
    [i \in 1..5 |->
        [staff_name |-> IF i = 3 THEN <<"A", " ">> ELSE A,
         flight_no |-> F1, sale_date |-> <<2024, 1, 1>>,
         sale_amount |-> IF i = 3 THEN 0 ELSE 1, sale_target |-> 2]]

BatchInputs ==
    UNION {[1..n -> BatchRowInputs] : n \in 1..MaxBatch} \cup {FiveRows}

\* inputs of the query scenarios: two owners, three display names, two dates
\* whose order differs from the order of their unpadded digits
B == <<"B">>
C == <<"C">>
D1 == <<2024, 2, 10>>
D2 == <<2024, 10, 2>>
QueryStaffIdInputs == {1, 2}
\* <<start_date, end_date>>: no bound, a start only, an end only, both, and a
\* range that holds no date
QueryRangeInputs ==
    { <<None, None>>, <<Some(D2), None>>, <<None, Some(D1)>>,
      <<Some(D1), Some(D2)>>, <<Some(D2), Some(D1)>> }
\* <<staff_id, staff_name, sale_date, sale_amount, sale_target>>
QueryRecordInputs ==
    { <<1, A, D1, 1, 1>>, <<2, A, D2, 1, 2>>, <<1, B, D2, 1, 1>>, <<2, C, D2, 1, 2>>,
      <<1, A, D1, 0, 1>> }


\* ----------------------------------------------------------------- actions
\* the login form handler, lines 650-657
Login(username, password) ==
    \E r \in {login(sales_staff, session_state, DBManager_conn, username, password)} :
        /\ session_state' = IF r.ret[1] # None
                            THEN [r.ss EXCEPT !.user = r.ret[1]]
                            ELSE r.ss
        /\ DBManager_conn' = r.handle
        /\ last' = [op |-> "login",
                    args |-> [username |-> username, password |-> password],
                    ret |-> r.ret, raised |-> r.raised]
        /\ failed_logins' = IF r.ret[1] # None THEN 0
                            ELSE IF r.ret[2].text = "bad_credentials"
                            THEN failed_logins + 1
                            ELSE failed_logins
        /\ UNCHANGED <<sales_staff, flight_sales, staff_seq, sales_seq>>

\* the logout button, lines 687-689, and the rerun's lines 634-635
Logout ==
    /\ session_state.user # None
    /\ session_state' = [user |-> None]
    /\ last' = [op |-> "logout", args |-> <<>>, ret |-> <<>>, raised |-> ""]
    /\ failed_logins' = 0
    /\ UNCHANGED <<sales_staff, flight_sales, staff_seq, sales_seq, DBManager_conn>>

Register(username, password, real_name) ==
    \E r \in {register(sales_staff, staff_seq, DBManager_conn, username, password, real_name)} :
        /\ r.seq <= MaxStaff
        /\ sales_staff' = r.staff
        /\ staff_seq' = r.seq
        /\ DBManager_conn' = r.handle
        /\ last' = [op |-> "register",
                    args |-> [username |-> username, password |-> password,
                              real_name |-> real_name],
                    ret |-> r.ret, raised |-> r.raised]
        /\ UNCHANGED <<flight_sales, sales_seq, session_state, failed_logins>>

GetStaffIdByName(staff_name) ==
    \E r \in {get_staff_id_by_name(sales_staff, staff_seq, DBManager_conn, staff_name)} :
        /\ r.seq <= MaxStaff
        /\ sales_staff' = r.staff
        /\ staff_seq' = r.seq
        /\ DBManager_conn' = r.handle
        /\ last' = [op |-> "get_staff_id_by_name",
                    args |-> [staff_name |-> staff_name],
                    ret |-> r.ret, raised |-> r.raised]
        /\ UNCHANGED <<flight_sales, sales_seq, session_state, failed_logins>>

\* the call, in a store that holds at most cap rows
AddFlightSaleUpTo(cap, staff_id, staff_name, flight_no, sale_date, sale_amount, sale_target) ==
    \E r \in {add_flight_sale(sales_staff, flight_sales, sales_seq, DBManager_conn,
                             staff_id, staff_name, flight_no, sale_date,
                             sale_amount, sale_target)} :
        /\ r.seq <= cap
        /\ flight_sales' = r.sales
        /\ sales_seq' = r.seq
        /\ DBManager_conn' = r.handle
        /\ last' = [op |-> "add_flight_sale",
                    args |-> [staff_id |-> staff_id, staff_name |-> staff_name,
                              flight_no |-> flight_no, sale_date |-> sale_date,
                              sale_amount |-> sale_amount, sale_target |-> sale_target],
                    ret |-> r.ret, raised |-> r.raised]
        /\ UNCHANGED <<sales_staff, staff_seq, session_state, failed_logins>>

AddFlightSale(staff_id, staff_name, flight_no, sale_date, sale_amount, sale_target) ==
    AddFlightSaleUpTo(MaxSales, staff_id, staff_name, flight_no, sale_date,
                      sale_amount, sale_target)

DeleteFlightSale(sale_id, staff_id) ==
    \E r \in {delete_flight_sale(flight_sales, DBManager_conn, sale_id, staff_id)} :
        /\ flight_sales' = r.sales
        /\ DBManager_conn' = r.handle
        /\ last' = [op |-> "delete_flight_sale",
                    args |-> [sale_id |-> sale_id, staff_id |-> staff_id],
                    ret |-> r.ret, raised |-> r.raised]
        /\ UNCHANGED <<sales_staff, staff_seq, sales_seq, session_state, failed_logins>>

\* the batch submit button, lines 726-732
AddBatchFlightSales(sales_data_list) ==
    \E r \in {add_batch_flight_sales(sales_staff, staff_seq, flight_sales, sales_seq,
                                    DBManager_conn, sales_data_list)} :
        /\ r.staff_seq <= MaxStaff
        /\ r.sales_seq <= MaxSales
        /\ sales_staff' = r.staff
        /\ staff_seq' = r.staff_seq
        /\ flight_sales' = r.sales
        /\ sales_seq' = r.sales_seq
        /\ DBManager_conn' = r.handle
        /\ last' = [op |-> "add_batch_flight_sales",
                    args |-> [sales_data_list |-> sales_data_list],
                    ret |-> r.ret, raised |-> r.raised]
        /\ UNCHANGED <<session_state, failed_logins>>

\* the personal dashboard, line 813
GetStaffSales(staff_id, start_date, end_date) ==
    \E r \in {get_staff_sales(flight_sales, DBManager_conn, staff_id,
                             start_date, end_date)} :
        /\ DBManager_conn' = r.handle
        /\ last' = [op |-> "get_staff_sales",
                    args |-> [staff_id |-> staff_id, start_date |-> start_date,
                              end_date |-> end_date],
                    ret |-> r.ret, raised |-> r.raised]
        /\ UNCHANGED <<sales_staff, flight_sales, staff_seq, sales_seq,
                       session_state, failed_logins>>

\* the administrator's dashboard, lines 749-750
GetAllStaffSales(start_date, end_date) ==
    \E r \in get_all_staff_sales(flight_sales, DBManager_conn, start_date, end_date) :
        /\ DBManager_conn' = r.handle
        /\ last' = [op |-> "get_all_staff_sales",
                    args |-> [start_date |-> start_date, end_date |-> end_date],
                    ret |-> r.ret, raised |-> r.raised]
        /\ UNCHANGED <<sales_staff, flight_sales, staff_seq, sales_seq,
                       session_state, failed_logins>>

GetStaffRanking(start_date, end_date) ==
    \E r \in get_staff_ranking(flight_sales, DBManager_conn, start_date, end_date) :
        /\ DBManager_conn' = r.handle
        /\ last' = [op |-> "get_staff_ranking",
                    args |-> [start_date |-> start_date, end_date |-> end_date],
                    ret |-> r.ret, raised |-> r.raised]
        /\ UNCHANGED <<sales_staff, flight_sales, staff_seq, sales_seq,
                       session_state, failed_logins>>

DoLogin == \E u \in UsernameInputs, p \in LoginPasswordInputs : Login(u, p)
DoRegister ==
    \E u \in UsernameInputs, p \in RegisterPasswordInputs, n \in RealNameInputs :
        Register(u, p, n)
DoGetStaffIdByName == \E n \in StaffNameInputs : GetStaffIdByName(n)
DoAddFlightSale ==
    \E i \in StaffIdInputs, n \in {A}, d \in DateInputs, s \in SaleInputs :
        AddFlightSale(i, n, s[1], d, s[2], s[3])
DoDeleteFlightSale == \E s \in SaleIdInputs, i \in StaffIdInputs : DeleteFlightSale(s, i)
DoAddBatchFlightSales == \E l \in BatchInputs : AddBatchFlightSales(l)

\* the account service alone: the record tables stay as init_db left them
NextAccount ==
    \/ DoLogin
    \/ Logout
    \/ DoRegister
    \/ DoGetStaffIdByName

SpecAccount == Init /\ [][NextAccount]_vars

\* the record service alone: the session stays as the first run left it
NextRecord ==
    \/ DoGetStaffIdByName
    \/ DoAddFlightSale
    \/ DoDeleteFlightSale
    \/ DoAddBatchFlightSales

SpecRecord == Init /\ [][NextRecord]_vars

\* the queries over a store filled through add_flight_sale
DoProvision == GetStaffIdByName(A)
DoAddRecord ==
    \E t \in QueryRecordInputs :
        AddFlightSaleUpTo(MaxQuerySales, t[1], t[2], F1, t[3], t[4], t[5])
DoDeleteRecord ==
    \E s \in 1..MaxQuerySales, i \in QueryStaffIdInputs : DeleteFlightSale(s, i)
DoGetStaffSales ==
    \E i \in QueryStaffIdInputs, d \in QueryRangeInputs : GetStaffSales(i, d[1], d[2])
DoGetAllStaffSales == \E d \in QueryRangeInputs : GetAllStaffSales(d[1], d[2])
DoGetStaffRanking == \E d \in QueryRangeInputs : GetStaffRanking(d[1], d[2])

NextQuery ==
    \/ DoProvision
    \/ DoAddRecord
    \/ DoDeleteRecord
    \/ DoGetStaffSales
    \/ DoGetAllStaffSales
    \/ DoGetStaffRanking

SpecQuery == Init /\ [][NextQuery]_vars

\* every operation of the service, each with a few inputs that take its
\* success path and its error paths
ServiceLoginInputs == {<<ADMIN_USER, ADMIN_PWD>>, <<A, ADMIN_PWD>>}
ServiceRegisterInputs ==
    { <<A, Abcdef1, A>>, <<ADMIN_USER, Abcdef1, A>>,
      <<A, <<"A", "b", "c", "d", "e", "f">>, A>> }
\* <<staff_id, sale_amount, sale_target>>
ServiceRecordInputs == {<<1, 1, 2>>, <<2, 1, 2>>, <<1, 0, 2>>}

ServiceLogin == \E c \in ServiceLoginInputs : Login(c[1], c[2])
ServiceRegister == \E c \in ServiceRegisterInputs : Register(c[1], c[2], c[3])
ServiceAddFlightSale ==
    \E t \in ServiceRecordInputs, d \in DateInputs :
        AddFlightSale(t[1], A, F1, d, t[2], t[3])
ServiceDeleteFlightSale == \E i \in {1, 2} : DeleteFlightSale(1, i)
ServiceGetStaffSales == GetStaffSales(1, None, None)
ServiceGetAllStaffSales == GetAllStaffSales(None, None)
ServiceGetStaffRanking == GetStaffRanking(None, None)

NextService ==
    \/ ServiceLogin
    \/ Logout
    \/ ServiceRegister
    \/ DoGetStaffIdByName
    \/ ServiceAddFlightSale
    \/ ServiceDeleteFlightSale
    \/ DoAddBatchFlightSales
    \/ ServiceGetStaffSales
    \/ ServiceGetAllStaffSales
    \/ ServiceGetStaffRanking

SpecService == Init /\ [][NextService]_vars

\* every operation with every input enumerated above
Next ==
    \/ DoLogin
    \/ Logout
    \/ DoRegister
    \/ DoGetStaffIdByName
    \/ DoAddFlightSale
    \/ DoDeleteFlightSale
    \/ DoAddBatchFlightSales
    \/ DoAddRecord
    \/ DoDeleteRecord
    \/ DoGetStaffSales
    \/ DoGetAllStaffSales
    \/ DoGetStaffRanking

Spec == Init /\ [][Next]_vars


\* ================================================================== claims
\* A step that sets last'.op to an operation's name is a call of that
\* operation: in such a step the unprimed variables are the state before the
\* call and the primed ones the state it leaves.

\* the strength policy as the specification words it
PolicyOK(password) ==
    /\ Len(password) >= 6
    /\ \E i \in 1..Len(password) : password[i] \in UpperChars
    /\ \E i \in 1..Len(password) : password[i] \in DigitChars

RegisterValidationTexts ==
    {"username_and_real_name_required", "password_too_short",
     "password_needs_uppercase", "password_needs_digit"}

CorrectCredentials(staff, username, password) ==
    \E a \in staff : a.username = username /\ a.password_hash.digest_of = password

\* C1: login returns the rate-limited outcome exactly when 5 failed attempts
\* have occurred since the last successful login or session reset; at 5 the
\* counter is left as it is, whatever the credentials; a successful login sets
\* the counter to 0.
C1_RateLimitedExactlyAfterFiveFailures ==
    [][last'.op = "login" =>
        /\ (last'.ret[2].text = "too_many_attempts") <=> (failed_logins = 5)
        /\ failed_logins = 5 =>
              /\ last'.ret[1] = None
              /\ Attempts(session_state') = Attempts(session_state)
        /\ last'.ret[1] # None => Attempts(session_state') = 0]_vars

\* a sixth attempt, with correct credentials, has been refused as rate-limited
C1_Witness ==
    /\ last.op = "login"
    /\ last.ret[2].text = "too_many_attempts"
    /\ CorrectCredentials(sales_staff, last.args.username, last.args.password)
    /\ session_state.login_attempts = 5

\* C2: from the same counter value, a login with a username that has no
\* account and a login with an existing username and a wrong password return
\* the same value and message and leave the same session state.
C2_FailedLoginDoesNotRevealUsername ==
    \A u1, u2 \in UsernameInputs, p1, p2 \in LoginPasswordInputs :
        ( /\ ~\E a \in sales_staff : a.username = u1
          /\ \E a \in sales_staff : a.username = u2
          /\ ~CorrectCredentials(sales_staff, u2, p2) )
        => LET r1 == login(sales_staff, session_state, DBManager_conn, u1, p1)
               r2 == login(sales_staff, session_state, DBManager_conn, u2, p2)
           IN  r1.ret = r2.ret /\ r1.ss = r2.ss

\* a login with an existing username and a wrong password has just failed, and
\* some username of the input set has no account
C2_Witness ==
    /\ last.op = "login"
    /\ \E a \in sales_staff : a.username = last.args.username /\ a.is_admin = 0
    /\ ~CorrectCredentials(sales_staff, last.args.username, last.args.password)
    /\ last.ret[2].text = "bad_credentials"
    /\ \E u \in UsernameInputs : ~\E a \in sales_staff : a.username = u

\* C3 as stated: register with a username that already belongs to an account
\* fails with the conflict outcome and leaves the accounts unchanged.
C3_TakenUsernameAlwaysConflict ==
    [][(last'.op = "register"
        /\ \E a \in sales_staff : a.username = last'.args.username)
       => (last'.ret[2].text = "username_exists" /\ sales_staff' = sales_staff)]_vars

\* C3 amended: register with a taken username, and input that passes validation
\* (non-empty username and display name, password within the policy), fails
\* with the conflict outcome and leaves the accounts unchanged; a successful
\* register adds exactly one account, with is_admin 0 and a username no account
\* had; usernames stay unique and the administrator rows are never changed.
C3_ConflictOnTakenUsernameWhenValid ==
    [][last'.op = "register" =>
        /\ ( /\ \E a \in sales_staff : a.username = last'.args.username
             /\ last'.args.username # <<>>
             /\ last'.args.real_name # <<>>
             /\ PolicyOK(last'.args.password) )
           => (last'.ret[2].text = "username_exists" /\ sales_staff' = sales_staff)
        /\ last'.ret[1] =>
              \E a \in sales_staff' \ sales_staff :
                  /\ sales_staff' = sales_staff \cup {a}
                  /\ a.is_admin = 0
                  /\ a.username = last'.args.username
                  /\ ~\E b \in sales_staff : b.username = a.username \/ b.id = a.id
        /\ ~last'.ret[1] => sales_staff' = sales_staff
        /\ \A a, b \in sales_staff' : a.username = b.username => a = b
        /\ {a \in sales_staff' : a.is_admin = 1} = {a \in sales_staff : a.is_admin = 1}]_vars

\* register("admin", a password within the policy, a name) has been refused as
\* a conflict
C3_Witness ==
    /\ last.op = "register"
    /\ last.args.username = ADMIN_USER
    /\ PolicyOK(last.args.password)
    /\ last.ret[2].text = "username_exists"
    /\ Cardinality({a \in sales_staff : a.is_admin = 1}) = 1

\* C4: register fails with a validation outcome and stores no account when the
\* username or the display name is empty or the password is outside the policy
\* (shorter than 6, no uppercase letter, no digit); a password within the
\* policy, such as "Abcdef1", passes the strength check.
C4_RegisterValidation ==
    [][last'.op = "register" =>
        /\ ( \/ last'.args.username = <<>>
             \/ last'.args.real_name = <<>>
             \/ ~PolicyOK(last'.args.password) )
           => /\ ~last'.ret[1]
              /\ last'.ret[2].text \in RegisterValidationTexts
              /\ sales_staff' = sales_staff
        /\ PolicyOK(last'.args.password) =>
              /\ is_strong_password(last'.args.password).ok
              /\ (last'.args.username # <<>> /\ last'.args.real_name # <<>>)
                 => last'.ret[2].text \notin RegisterValidationTexts
        /\ is_strong_password(Abcdef1).ok]_vars

\* register with "Abcdef" (no digit) has been refused, no account stored
C4_Witness ==
    /\ last.op = "register"
    /\ last.args.username # <<>>
    /\ last.args.real_name # <<>>
    /\ last.args.password = <<"A", "b", "c", "d", "e", "f">>
    /\ last.ret[2].text = "password_needs_digit"


\* the fraction <<n, d>> is the quotient amount / target
IsQuotient(rate, amount, target) ==
    rate[2] > 0 /\ rate[1] * target = amount * rate[2]

\* C5: add_flight_sale fails with a validation outcome and leaves flight_sales
\* unchanged when the flight number is empty or the amount or the target is not
\* positive; otherwise, for an existing owner, it persists exactly one new row,
\* made of its arguments, and changes no existing row.
C5_AddRecordValidatesThenInsertsOne ==
    [][last'.op = "add_flight_sale" =>
        LET arg == last'.args
            bad == arg.flight_no = <<>> \/ arg.sale_amount <= 0 \/ arg.sale_target <= 0
        IN  /\ bad => /\ ~last'.ret[1]
                      /\ last'.ret[2].text \in {"amount_and_target_must_be_positive",
                                                "flight_no_required"}
                      /\ flight_sales' = flight_sales
            /\ (~bad /\ \E a \in sales_staff : a.id = arg.staff_id) =>
                  /\ last'.ret[1]
                  /\ flight_sales \subseteq flight_sales'
                  /\ \E r \in flight_sales' \ flight_sales :
                        /\ flight_sales' = flight_sales \cup {r}
                        /\ ~\E q \in flight_sales : q.id = r.id
                        /\ r.staff_id = arg.staff_id
                        /\ r.staff_name = arg.staff_name
                        /\ r.flight_no = arg.flight_no
                        /\ r.sale_amount = arg.sale_amount
                        /\ r.sale_target = arg.sale_target]_vars

\* a valid row has been added next to a row that was already stored
C5_Witness ==
    /\ last.op = "add_flight_sale"
    /\ last.ret[1]
    /\ Cardinality(flight_sales) = 2
    /\ \E r \in flight_sales : r.id = sales_seq /\ r.staff_id = last.args.staff_id

\* C6: every stored row of flight_sales carries the completion rate of its own
\* amount and target: amount / target, or 0 when the target is 0.
C6_StoredRateIsAmountOverTarget ==
    \A r \in flight_sales :
        IF r.sale_target = 0
        THEN r.completion_rate[1] = 0 /\ r.completion_rate[2] > 0
        ELSE IsQuotient(r.completion_rate, r.sale_amount, r.sale_target)

\* after a delete, a stored row with amount 1 and target 2 carries the rate 1/2
C6_Witness ==
    /\ last.op = "delete_flight_sale"
    /\ sales_seq = 2
    /\ \E r \in flight_sales :
          r.sale_amount = 1 /\ r.sale_target = 2 /\ r.completion_rate = <<1, 2>>

\* C10: delete_flight_sale(sale_id, staff_id) removes the row with that id only
\* if its staff_id is the given one; otherwise flight_sales is unchanged; the
\* call reports success either way, and every other row is left as it was.
C10_DeleteOnlyOwnRecord ==
    [][last'.op = "delete_flight_sale" =>
        LET arg == last'.args
            target == {r \in flight_sales : r.id = arg.sale_id}
        IN  /\ last'.ret[1]
            /\ flight_sales' \subseteq flight_sales
            /\ flight_sales \ flight_sales' \subseteq target
            /\ \A r \in target :
                  (r \in flight_sales') <=> (r.staff_id # arg.staff_id)]_vars

\* a delete by an existing account that does not own the row has left the row
\* stored, next to another row
C10_Witness ==
    /\ last.op = "delete_flight_sale"
    /\ \E r \in flight_sales :
          r.id = last.args.sale_id /\ r.staff_id # last.args.staff_id
    /\ \E a \in sales_staff : a.id = last.args.staff_id
    /\ \E r \in flight_sales : r.id # last.args.sale_id


\* ---- add_batch_flight_sales
BatchRows(l) == l.args.sales_data_list

\* the rows of a batch that carry a name, a flight number, a positive amount
\* and a positive target
ValidRows(rows) ==
    {i \in DOMAIN rows : /\ rows[i].staff_name # <<>>
                         /\ rows[i].flight_no # <<>>
                         /\ rows[i].sale_amount > 0
                         /\ rows[i].sale_target > 0}

\* the inserted count and the per-entry failure list the call reports
BatchInserted(l) ==
    IF l.raised = "" /\ l.ret[2].text = "batch_ok" THEN l.ret[2].success_count ELSE 0

BatchFailures(l) ==
    IF l.raised = "" /\ l.ret[2].text \in {"batch_ok", "batch_no_valid_data"}
    THEN l.ret[2].fail_messages
    ELSE <<>>

\* C7: every valid entry of a batch results in exactly one persisted row, owned
\* by the account resolved for its name; the reported inserted count is the
\* number of valid entries, whatever the other entries are.
C7_BatchInsertsEveryValidEntry ==
    [][last'.op = "add_batch_flight_sales" =>
        LET rows == BatchRows(last')
            valid == ValidRows(rows)
            new == flight_sales' \ flight_sales
        IN  /\ flight_sales \subseteq flight_sales'
            /\ BatchInserted(last') = Cardinality(valid)
            /\ \A i \in valid :
                  \E r \in new :
                      /\ r.staff_name = rows[i].staff_name
                      /\ r.flight_no = rows[i].flight_no
                      /\ r.sale_amount = rows[i].sale_amount
                      /\ r.sale_target = rows[i].sale_target
                      /\ \E a \in sales_staff' :
                            a.id = r.staff_id /\ a.real_name = rows[i].staff_name]_vars

\* C8: an entry skipped because its amount or target is not positive is named
\* in the failure list; the five-row batch whose row 3 has amount 0 reports 4
\* inserted and 1 skipped, naming row 3's owner.
C8_SkippedEntryIsReported ==
    last.op = "add_batch_flight_sales" =>
        LET rows == BatchRows(last)
            fails == BatchFailures(last)
        IN  /\ \A i \in DOMAIN rows :
                  ( /\ rows[i].staff_name # <<>>
                    /\ rows[i].flight_no # <<>>
                    /\ (rows[i].sale_amount <= 0 \/ rows[i].sale_target <= 0) )
                  => \E j \in DOMAIN fails : fails[j].staff_name = rows[i].staff_name
            /\ rows = FiveRows =>
                  /\ BatchInserted(last) = 4
                  /\ Len(fails) = 1
                  /\ fails[1].staff_name = FiveRows[3].staff_name

IsPrefix(u, v) == Len(u) <= Len(v) /\ SubSeq(v, 1, Len(u)) = u

\* C9: for every valid entry of a batch, a non-admin account with the entry's
\* display name is used when one exists and no account is created; when none
\* exists, one non-admin account with that display name is provisioned, its
\* username derived from the name (suffixed when taken); provisioning succeeds
\* whatever accounts exist, and usernames stay unique.
C9_BatchResolvesOrProvisions ==
    [][ /\ last'.op = "add_batch_flight_sales" =>
              LET rows == BatchRows(last')
              IN  /\ last'.raised = ""
                  /\ \A a, b \in sales_staff' : a.username = b.username => a = b
                  /\ \A i \in ValidRows(rows) :
                        LET n == rows[i].staff_name
                            had == {a \in sales_staff : a.real_name = n /\ a.is_admin = 0}
                            got == {a \in sales_staff' : a.real_name = n /\ a.is_admin = 0}
                        IN  IF had # {}
                            THEN got = had
                            ELSE /\ Cardinality(got) = 1
                                 /\ \A a \in got : IsPrefix(RemoveSpaces(n), a.username)
        /\ (last'.op = "get_staff_id_by_name" /\ last'.args.staff_name # <<>>) =>
              /\ last'.raised = ""
              /\ last'.ret[1] # None ]_vars

\* ---- queries and ranking
\* the calendar date a stored row carries, and the order of calendar dates
DateOfRow(r) == CHOOSE d \in {D1, D2} : StrDate(d) = r.sale_date

DateBefore(d1, d2) ==
    \/ d1[1] < d2[1]
    \/ d1[1] = d2[1] /\ d1[2] < d2[2]
    \/ d1[1] = d2[1] /\ d1[2] = d2[2] /\ d1[3] < d2[3]

InRange(d, start_date, end_date) ==
    /\ start_date = None \/ ~DateBefore(d, start_date[1])
    /\ end_date = None \/ ~DateBefore(end_date[1], d)

NoRowTwice(df) == \A i, j \in DOMAIN df : i # j => df[i] # df[j]

\* C11: the result of a query, owner-scoped or all-owners, is ordered by date
\* descending and, among rows of one date, by id descending.
C11_QueryOrderedByDateThenIdDesc ==
    last.op \in {"get_staff_sales", "get_all_staff_sales"} =>
        \A i, j \in DOMAIN last.ret :
            i < j =>
                \/ DateBefore(DateOfRow(last.ret[j]), DateOfRow(last.ret[i]))
                \/ /\ DateOfRow(last.ret[i]) = DateOfRow(last.ret[j])
                   /\ last.ret[i].id > last.ret[j].id

\* C12: a query returns, once each, exactly the stored rows of the owner asked
\* for (of every owner for the all-owners query) whose date lies within the
\* bounds given, both bounds included; so a stored row is returned by the
\* unbounded query of its owner and of no other owner, and a row that is no
\* longer stored is returned by no query.
C12_QueryReturnsExactlyTheMatchingRows ==
    /\ last.op = "get_staff_sales" =>
          /\ NoRowTwice(last.ret)
          /\ Rows(last.ret) =
                {r \in flight_sales :
                    /\ r.staff_id = last.args.staff_id
                    /\ InRange(DateOfRow(r), last.args.start_date, last.args.end_date)}
    /\ last.op = "get_all_staff_sales" =>
          /\ NoRowTwice(last.ret)
          /\ Rows(last.ret) =
                {r \in flight_sales :
                    InRange(DateOfRow(r), last.args.start_date, last.args.end_date)}
    /\ \A r \in flight_sales, u \in QueryStaffIdInputs :
          r \in Rows(get_staff_sales(flight_sales, DBManager_conn, u, None, None).ret)
              <=> u = r.staff_id

\* a query of owner 1 from D2 on returned a row dated D2 and left out a row of
\* owner 1 dated D1 and a row of owner 2 dated D2
C12_Witness ==
    /\ last.op = "get_staff_sales"
    /\ last.args = [staff_id |-> 1, start_date |-> Some(D2), end_date |-> None]
    /\ \E r \in Rows(last.ret) : DateOfRow(r) = D2
    /\ \E r \in flight_sales : r.staff_id = 1 /\ DateOfRow(r) = D1
    /\ \E r \in flight_sales : r.staff_id = 2 /\ DateOfRow(r) = D2

\* C13: in the result of get_staff_ranking each row's rank is 1 plus the number
\* of rows with a strictly greater completion rate, and the rows are sorted by
\* rank ascending.
C13_RankIsOnePlusStrictlyBetter ==
    last.op = "get_staff_ranking" =>
        /\ \A i \in DOMAIN last.ret :
              last.ret[i].rank =
                  1 + Cardinality({j \in DOMAIN last.ret :
                        last.ret[j].completion_rate[1] * last.ret[i].completion_rate[2]
                          > last.ret[i].completion_rate[1] * last.ret[j].completion_rate[2]})
        /\ \A i, j \in DOMAIN last.ret : i < j => last.ret[i].rank <= last.ret[j].rank

\* rates 1, 1 and 1/2 were ranked 1, 1 and 3
C13_Witness ==
    /\ last.op = "get_staff_ranking"
    /\ Len(last.ret) = 3
    /\ last.ret[1].completion_rate = <<1, 1>> /\ last.ret[1].rank = 1
    /\ last.ret[2].completion_rate = <<1, 1>> /\ last.ret[2].rank = 1
    /\ last.ret[3].completion_rate = <<1, 2>> /\ last.ret[3].rank = 3

RECURSIVE SumOfRows(_, _)
SumOfRows(rows, column) ==
    IF rows = {} THEN 0
    ELSE LET r == CHOOSE x \in rows : TRUE
         IN  r[column] + SumOfRows(rows \ {r}, column)

\* the stored rows a ranking over the given dates is computed from
Queried == {r \in flight_sales :
                InRange(DateOfRow(r), last.args.start_date, last.args.end_date)}

\* C14: the result of get_staff_ranking has one row per distinct staff_name
\* among the queried rows, whatever their staff_id; its sums are the sums over
\* all queried rows of that name and its completion_rate is
\* amount_sum / target_sum if target_sum > 0 else 0.
C14_OneRowPerNameWithWeightedRate ==
    last.op = "get_staff_ranking" =>
        /\ {g.staff_name : g \in Rows(last.ret)} = {r.staff_name : r \in Queried}
        /\ Len(last.ret) = Cardinality({r.staff_name : r \in Queried})
        /\ \A g \in Rows(last.ret) :
              LET named == {r \in Queried : r.staff_name = g.staff_name}
                  amount_sum == SumOfRows(named, "sale_amount")
                  target_sum == SumOfRows(named, "sale_target")
              IN  /\ g.sale_amount = amount_sum
                  /\ g.sale_target = target_sum
                  /\ IF target_sum > 0
                     THEN /\ g.completion_rate[2] > 0
                          /\ g.completion_rate[1] * target_sum
                                = amount_sum * g.completion_rate[2]
                     ELSE g.completion_rate = <<0, 1>>

\* one row stands for two owners of one name: amounts 1 + 1 over targets
\* 1 + 2, rate 2/3 where the mean of the two rows' rates is 3/4
C14_Witness ==
    /\ last.op = "get_staff_ranking"
    /\ \E g \in Rows(last.ret) :
          /\ g.completion_rate = <<2, 3>>
          /\ {r.staff_id : r \in {x \in Queried : x.staff_name = g.staff_name}} = {1, 2}
          /\ {r.completion_rate : r \in {x \in Queried : x.staff_name = g.staff_name}}
                = {<<1, 1>>, <<1, 2>>}

\* ---- referential integrity and the connection handle
\* C15: every stored row's staff_id is the id of an existing account; an
\* add_flight_sale whose staff_id has no account fails and stores nothing; no
\* operation removes an account.
C15_EveryRecordReferencesAnAccount ==
    /\ [](\A r \in flight_sales : \E a \in sales_staff : a.id = r.staff_id)
    /\ [][ /\ {a.id : a \in sales_staff} \subseteq {a.id : a \in sales_staff'}
           /\ (/\ last'.op = "add_flight_sale"
               /\ ~\E a \in sales_staff : a.id = last'.args.staff_id)
                  => last'.ret[1] = FALSE /\ flight_sales' = flight_sales ]_vars

\* an insert for an owner id without an account was refused while a row of an
\* existing account is stored
C15_Witness ==
    /\ last.op = "add_flight_sale"
    /\ ~\E a \in sales_staff : a.id = last.args.staff_id
    /\ last.args.sale_amount > 0 /\ last.args.sale_target > 0
    /\ last.ret = <<FALSE, [text |-> "system_error"]>>
    /\ flight_sales # {}

\* C16: after every operation, on its success path and on every error path,
\* the shared handle is unset, so the next operation obtains a connection.
C16_HandleUnsetAfterEveryOperation ==
    /\ DBManager_conn = "None"
    /\ get_conn(DBManager_conn).conn # None

\* the error path on which an exception escapes get_staff_id_by_name
C16_Witness ==
    /\ last.op = "get_staff_id_by_name"
    /\ last.raised = "IntegrityError"
    /\ DBManager_conn = "None"
====
